---- MODULE Spec2Model ----
(***************************************************************************)
(* CuCIMWSI: the CuCIM-backed whole-slide-image adapter of TRIDENT         *)
(* (src/trident/wsi_objects/CuCIMWSI.py).                                  *)
(*                                                                         *)
(* Conventions of the model                                                *)
(*  - A Python Optional is a sequence of length 0 or 1: None is <<>> and a *)
(*    value v is <<v>>.                                                    *)
(*  - A metadata key is the sequence of its dot-separated segments, so     *)
(*    that f"{parent_key}.{k}" is parent_key \o k and two dotted strings   *)
(*    are equal exactly when their segment sequences are.                  *)
(*  - An mpp value is an integer number of 1/1000 micron; the values the   *)
(*    model draws are multiples of 10, so (x + y) / 2 is exact.            *)
(*  - A dict is the sequence of its items in insertion order.              *)
(***************************************************************************)
EXTENDS Integers, Sequences, FiniteSets, TLC

VARIABLES
    files,              \* the file system: the slide file and the contour file
    slide_path,         \* self.slide_path
    tissue_seg_path,    \* self.tissue_seg_path (Optional)
    custom_mpp_keys,    \* self.custom_mpp_keys
    mpp,                \* self.mpp (Optional)
    mag,                \* self.mag (Optional)
    lazy_init,          \* self.lazy_init
    img,                \* self.img, the CuImage handle (Optional)
    dimensions,         \* self.dimensions (Optional)
    width,              \* self.width (Optional)
    height,             \* self.height (Optional)
    level_count,        \* self.level_count (Optional)
    level_downsamples,  \* self.level_downsamples
    level_dimensions,   \* self.level_dimensions
    properties,         \* self.properties (Optional)
    gdf_contours,       \* self.gdf_contours (Optional)
    kwargs,             \* the arguments the adapter was constructed with
    call                \* the last call made on the adapter and its outcome

vars == <<files, slide_path, tissue_seg_path, custom_mpp_keys, mpp, mag, lazy_init,
          img, dimensions, width, height, level_count, level_downsamples,
          level_dimensions, properties, gdf_contours, kwargs, call>>

attrs == <<mpp, mag, lazy_init, img, dimensions, width, height, level_count,
           level_downsamples, level_dimensions, properties, gdf_contours>>

config == <<files, slide_path, tissue_seg_path, custom_mpp_keys, kwargs>>

None == <<>>

Some(v) == <<v>>

(***************************************************************************)
(* Bounds of the model.                                                    *)
(***************************************************************************)
\* items (values and nested dicts) of a metadata document
MaxItems == 3

\* largest side of a requested thumbnail or region
MaxSide == 2

(***************************************************************************)
(* Metadata values and try_parse.                                          *)
(***************************************************************************)
\* a number, e.g. 0.25
Num(n) == [kind |-> "float", v |-> n]

\* a string that float() parses, e.g. "0.26"
NumStr(n) == [kind |-> "numstr", v |-> n]

\* a string that float() rejects, e.g. "n/a"
Text == [kind |-> "text", v |-> 0]

LeafValues == {Num(250), NumStr(260), Text}

\* try_parse: float(val), or None when float() raises
try_parse(val) ==
    IF val.kind \in {"float", "numstr"} THEN Some(val.v) ELSE None

(***************************************************************************)
(* Keys, str.lower() and the fallback list.                                *)
(***************************************************************************)
\* str.lower() on one segment, over the segments the model uses
LowerSeg(s) ==
    CASE s = "OpenSlide" -> "openslide"
      [] s = "MPP" -> "mpp"
      [] s = "Scan" -> "scan"
      [] s = "X" -> "x"
      [] s = "MPP-X" -> "mpp-x"
      [] s = "MPP-Y" -> "mpp-y"
      [] OTHER -> s

\* str.lower() on a dotted key
Lower(key) == [i \in 1..Len(key) |-> LowerSeg(key[i])]

fallback_keys ==
    << <<"openslide", "mpp-x">>, <<"openslide", "mpp-y">>,
       <<"tiff", "resolution-x">>, <<"tiff", "resolution-y">>,
       <<"mpp">>, <<"spacing">>, <<"microns_per_pixel">>,
       <<"aperio", "mpp">>, <<"hamamatsu", "mpp">>,
       <<"metadata", "resolutions", "level[0]", "spacing">>,
       <<"metadata", "resolutions", "level[0]", "physical_size", "0">> >>

(***************************************************************************)
(* flatten: the nested metadata as one mapping of lowercase dotted keys.   *)
(* An item is [k, isdict, v, sub]: a leaf holds v, a dict holds sub.       *)
(***************************************************************************)
Leaf(k, v) == [k |-> k, isdict |-> FALSE, v |-> v, sub |-> <<>>]

Dict(k, sub) == [k |-> k, isdict |-> TRUE, v |-> Text, sub |-> sub]

\* flat_meta[key] = v
Put(flat, key, v) ==
    [x \in (DOMAIN flat) \cup {key} |-> IF x = key THEN v ELSE flat[x]]

RECURSIVE flatten(_, _, _)
\* flatten(d, parent_key), writing into flat_meta
flatten(d, parent_key, flat) ==
    IF d = <<>> THEN flat
    ELSE LET e == Head(d)
             key == parent_key \o e.k
         IN flatten(Tail(d), parent_key,
                IF e.isdict THEN flatten(e.sub, key, flat)
                ELSE Put(flat, Lower(key), e.v))

\* json.loads(metadata) when the metadata is a JSON string
json_loads(metadata) == metadata.doc

\* flat_meta as _fetch_mpp builds it from self.img.metadata
flat_meta_of(metadata) == flatten(json_loads(metadata), <<>>, <<>>)

(***************************************************************************)
(* _fetch_mpp.  The axes record carries mpp_x and mpp_y together with the  *)
(* key each one was read from (src_x, src_y: None while the axis is unset  *)
(* or was only mirrored from the other axis).                              *)
(***************************************************************************)
NoAxes == [mpp_x |-> None, mpp_y |-> None, src_x |-> None, src_y |-> None, brk |-> FALSE]

\* the key a parsed value was read from, None when nothing was parsed
Src(parsed, key) == IF parsed = None THEN None ELSE Some(key)

\* try_parse(flat_meta.get(key))
get_parsed(flat_meta, key) ==
    IF key \in DOMAIN flat_meta THEN try_parse(flat_meta[key]) ELSE None

\* "Check custom keys first if provided"
custom_axes(flat_meta, custom_keys) ==
    LET kx == IF custom_keys.mpp_x = None THEN None ELSE Some(Lower(custom_keys.mpp_x[1]))
        ky == IF custom_keys.mpp_y = None THEN None ELSE Some(Lower(custom_keys.mpp_y[1]))
        px == IF kx = None THEN None ELSE get_parsed(flat_meta, kx[1])
        py == IF ky = None THEN None ELSE get_parsed(flat_meta, ky[1])
    IN [mpp_x |-> px, mpp_y |-> py,
        src_x |-> IF kx = None THEN None ELSE Src(px, kx[1]),
        src_y |-> IF ky = None THEN None ELSE Src(py, ky[1]),
        brk |-> FALSE]

\* variant: two independent tests, so that one key can fill both axes
fallback_step_both(flat_meta, a, key) ==
    IF a.brk THEN a
    ELSE LET inmeta == key \in DOMAIN flat_meta
             p == IF inmeta THEN try_parse(flat_meta[key]) ELSE None
             b == IF a.mpp_x = None /\ inmeta
                  THEN [a EXCEPT !.mpp_x = p, !.src_x = Src(p, key)]
                  ELSE a
             c == IF a.mpp_y = None /\ inmeta
                  THEN [b EXCEPT !.mpp_y = p, !.src_y = Src(p, key)]
                  ELSE b
         IN [c EXCEPT !.brk = (c.mpp_x # None /\ c.mpp_y # None)]

\* variant: a key whose value does not parse ends the search
fallback_step_stop_on_bad(flat_meta, a, key) ==
    IF a.brk THEN a
    ELSE LET inmeta == key \in DOMAIN flat_meta
             p == IF inmeta THEN try_parse(flat_meta[key]) ELSE None
             b == IF a.mpp_x = None /\ inmeta
                  THEN [a EXCEPT !.mpp_x = p, !.src_x = Src(p, key)]
                  ELSE IF a.mpp_y = None /\ inmeta
                  THEN [a EXCEPT !.mpp_y = p, !.src_y = Src(p, key)]
                  ELSE a
         IN [b EXCEPT !.brk = (b.mpp_x # None /\ b.mpp_y # None) \/ (inmeta /\ p = None)]

\* one iteration of "for key in fallback_keys"
fallback_step(flat_meta, a, key) ==
    IF a.brk THEN a
    ELSE LET inmeta == key \in DOMAIN flat_meta
             p == IF inmeta THEN try_parse(flat_meta[key]) ELSE None
             b == IF a.mpp_x = None /\ inmeta
                  THEN [a EXCEPT !.mpp_x = p, !.src_x = Src(p, key)]
                  ELSE IF a.mpp_y = None /\ inmeta
                  THEN [a EXCEPT !.mpp_y = p, !.src_y = Src(p, key)]
                  ELSE a
         IN [b EXCEPT !.brk = (b.mpp_x # None /\ b.mpp_y # None)]

RECURSIVE fallback_loop(_, _, _)
\* the loop over fallback_keys, from the i-th key on
fallback_loop(flat_meta, a, i) ==
    IF i > Len(fallback_keys) THEN a
    ELSE fallback_loop(flat_meta, fallback_step(flat_meta, a, fallback_keys[i]), i + 1)

\* variant: the found axis is not copied to the other one
mirror_axes_off(a) == a

\* "Use same value for both axes if only one was found"
mirror_axes(a) ==
    LET b == IF a.mpp_x # None /\ a.mpp_y = None THEN [a EXCEPT !.mpp_y = a.mpp_x] ELSE a
    IN IF b.mpp_y # None /\ b.mpp_x = None THEN [b EXCEPT !.mpp_x = b.mpp_y] ELSE b

\* mpp_x and mpp_y as _fetch_mpp holds them before it returns
fetch_axes(metadata, custom_keys) ==
    LET flat_meta == flat_meta_of(metadata)
    IN mirror_axes(fallback_loop(flat_meta, custom_axes(flat_meta, custom_keys), 1))

\* _fetch_mpp(custom_keys): the average of both axes, or None
_fetch_mpp(metadata, custom_keys) ==
    LET a == fetch_axes(metadata, custom_keys)
    IN IF a.mpp_x # None /\ a.mpp_y # None
       THEN Some((a.mpp_x[1] + a.mpp_y[1]) \div 2)
       ELSE None

(***************************************************************************)
(* The inputs of the calibration lookup: metadata documents of at most     *)
(* MaxItems items and the caller's custom_mpp_keys.                        *)
(***************************************************************************)
TopLeafKeys ==
    { <<"openslide", "mpp-x">>, <<"openslide", "mpp-y">>, <<"tiff", "resolution-x">>,
      <<"MPP">>, <<"scan", "x">> }

SubLeafKeys == { <<"mpp-x">>, <<"mpp-y">> }

RECURSIVE ItemCount(_)
\* the number of items of a dict, nested ones included
ItemCount(d) ==
    IF d = <<>> THEN 0
    ELSE 1 + (IF Head(d).isdict THEN ItemCount(Head(d).sub) ELSE 0) + ItemCount(Tail(d))

HasKey(d, k) == \E i \in 1..Len(d) : d[i].k = k

RECURSIVE SubDicts(_)
\* the nested dicts of at most n values
SubDicts(n) ==
    IF n <= 0 THEN {<<>>}
    ELSE SubDicts(n - 1) \cup
         { Append(d[1], d[2]) :
             d \in { e \in SubDicts(n - 1) \X {Leaf(k, v) : k \in SubLeafKeys, v \in LeafValues} :
                       /\ ~HasKey(e[1], e[2].k)
                       /\ Len(e[1]) = n - 1 } }

TopItems ==
    {Leaf(k, v) : k \in TopLeafKeys, v \in LeafValues}
        \cup {Dict(<<"openslide">>, s) : s \in SubDicts(MaxItems - 1)}

RECURSIVE Docs(_)
\* the metadata dicts of at most n items: a Python dict holds a key once
Docs(n) ==
    IF n <= 0 THEN {<<>>}
    ELSE Docs(n - 1) \cup
         { Append(d[1], d[2]) :
             d \in { e \in Docs(n - 1) \X TopItems :
                       /\ ~HasKey(e[1], e[2].k)
                       /\ ItemCount(Append(e[1], e[2])) = n } }

\* self.img.metadata is the dict itself, or the JSON text of it
AsDict(doc) == [isstr |-> FALSE, doc |-> doc]

AsJson(doc) == [isstr |-> TRUE, doc |-> doc]

CustomKeySets ==
    [mpp_x : {None, Some(<<"mpp">>)},
     mpp_y : {None, Some(<<"Scan", "X">>)}]

NoCustomKeys == [mpp_x |-> None, mpp_y |-> None]

(***************************************************************************)
(* The record of a call: its arguments, what it touched, how it ended.     *)
(***************************************************************************)
NoRet == [kind |-> "None", a |-> 0, b |-> 0, dev |-> ""]

NoCall ==
    [op |-> "__init__", read_as |-> "", device |-> "", level |-> 0, w |-> 0, h |-> 0,
     raised |-> "", cause |-> "", opened |-> FALSE, read_seg |-> FALSE,
     decoded |-> FALSE, ret |-> NoRet, axes |-> NoAxes]

\* a returned Optional[float]
FloatRet(f) == IF f = None THEN NoRet ELSE [kind |-> "float", a |-> f[1], b |-> 0, dev |-> ""]

(***************************************************************************)
(* The slide files.                                                        *)
(***************************************************************************)
Slide(size, dims, downs, metadata) ==
    [size |-> size,
     resolutions |-> [level_count |-> Len(dims), level_downsamples |-> downs,
                      level_dimensions |-> dims],
     metadata |-> metadata]

\* a two-level slide holding the metadata document doc
SlideOf(doc) == Slide(<<4, 2>>, << <<4, 2>>, <<2, 1>> >>, <<1, 2>>, AsDict(doc))

(***************************************************************************)
(* The calibration lookup on its own: an adapter opened on a slide holding *)
(* any metadata document, and calls of _fetch_mpp on it.                   *)
(***************************************************************************)
InitCal ==
    /\ \E doc \in Docs(MaxItems) : files = [slide |-> Some(SlideOf(doc)), seg |-> FALSE]
    /\ slide_path = "slide.svs"
    /\ tissue_seg_path = None
    /\ custom_mpp_keys \in CustomKeySets
    /\ img = files.slide
    /\ dimensions = Some(img[1].size)
    /\ width = Some(img[1].size[1])
    /\ height = Some(img[1].size[2])
    /\ level_count = Some(img[1].resolutions.level_count)
    /\ level_downsamples = img[1].resolutions.level_downsamples
    /\ level_dimensions = img[1].resolutions.level_dimensions
    /\ properties = Some(img[1].metadata)
    /\ mpp = _fetch_mpp(img[1].metadata, custom_mpp_keys)
    /\ mag = Some(40)
    /\ lazy_init = TRUE
    /\ gdf_contours = None
    /\ kwargs = [slide_path |-> slide_path, tissue_seg_path |-> tissue_seg_path,
                 custom_mpp_keys |-> custom_mpp_keys, mpp |-> None]
    /\ call = NoCall

\* self._fetch_mpp(self.custom_mpp_keys)
FetchMpp ==
    /\ call' = IF img = None
               THEN \* self.img.metadata on an adapter that has no img
                    [NoCall EXCEPT !.op = "_fetch_mpp", !.raised = "AttributeError"]
               ELSE [NoCall EXCEPT !.op = "_fetch_mpp",
                                   !.ret = FloatRet(_fetch_mpp(img[1].metadata, custom_mpp_keys)),
                                   !.axes = fetch_axes(img[1].metadata, custom_mpp_keys)]
    /\ UNCHANGED <<config, attrs>>

NextCal == FetchMpp

SpecCal == InitCal /\ [][NextCal]_vars

(***************************************************************************)
(* The adapter and its file system.                                        *)
(***************************************************************************)
SlideFiles ==
    { SlideOf(<< Dict(<<"openslide">>,
                      << Leaf(<<"mpp-x">>, Num(250)), Leaf(<<"mpp-y">>, NumStr(260)) >>) >>),
      Slide(<<2, 2>>, << <<2, 2>> >>, <<1>>, AsJson(<< Leaf(<<"MPP">>, NumStr(260)) >>)),
      SlideOf(<<>>) }

\* what CuImage(path) raises when the path does not resolve: the library decides
OpenErrors == {"FileNotFoundError", "RuntimeError"}

\* what gpd.read_file(path) raises when the path does not resolve: the library decides
SegErrors == {"FileNotFoundError", "DriverError"}

\* the adapter as WSI.__init__ leaves it with lazy_init=True: nothing is opened
Init ==
    /\ files \in [slide : {None} \cup {Some(f) : f \in SlideFiles}, seg : BOOLEAN]
    /\ kwargs \in [slide_path : {"slide.svs"},
                   tissue_seg_path : {None, Some("seg.geojson")},
                   custom_mpp_keys : {NoCustomKeys, [mpp_x |-> Some(<<"mpp">>), mpp_y |-> None]},
                   mpp : {None, Some(500)}]
    /\ slide_path = kwargs.slide_path
    /\ tissue_seg_path = kwargs.tissue_seg_path
    /\ custom_mpp_keys = kwargs.custom_mpp_keys
    /\ mpp = kwargs.mpp
    /\ mag = None
    /\ lazy_init = FALSE
    /\ img = None
    /\ dimensions = None
    /\ width = None
    /\ height = None
    /\ level_count = None
    /\ level_downsamples = <<>>
    /\ level_dimensions = <<>>
    /\ properties = None
    /\ gdf_contours = None
    /\ call = NoCall

\* self._fetch_magnification(custom_mpp_keys): a magnification, or None when it raises
_fetch_magnification == {None, Some(20), Some(40)}

\* "except Exception as e: raise Exception(...)": the kind that reaches the caller
Reraised(cause) == "Exception"

\* variant: the metadata value replaces an explicit mpp
resolve_mpp_derived_first(current, derived) ==
    IF derived # None THEN derived ELSE current

\* "if self.mpp is None: self.mpp = self._fetch_mpp(self.custom_mpp_keys)"
resolve_mpp(current, derived) ==
    IF current = None THEN derived ELSE current

\* the body of "if not self.lazy_init:"
DoInitialize ==
    \/ \* CuImage(self.slide_path) raises
       /\ files.slide = None
       /\ \E cause \in OpenErrors :
            call' = [NoCall EXCEPT !.op = "initialize", !.opened = TRUE,
                                   !.cause = cause, !.raised = Reraised(cause)]
       /\ UNCHANGED <<config, attrs>>
    \/ \* the slide opens
       /\ files.slide # None
       /\ img' = files.slide
       /\ dimensions' = Some(files.slide[1].size)
       /\ width' = Some(files.slide[1].size[1])
       /\ height' = Some(files.slide[1].size[2])
       /\ level_count' = Some(files.slide[1].resolutions.level_count)
       /\ level_downsamples' = files.slide[1].resolutions.level_downsamples
       /\ level_dimensions' = files.slide[1].resolutions.level_dimensions
       /\ properties' = Some(files.slide[1].metadata)
       /\ mpp' = resolve_mpp(mpp, _fetch_mpp(files.slide[1].metadata, custom_mpp_keys))
       /\ \E m \in _fetch_magnification :
            IF m = None
            THEN \* _fetch_magnification raises
                 /\ UNCHANGED <<mag, lazy_init, gdf_contours>>
                 /\ call' = [NoCall EXCEPT !.op = "initialize", !.opened = TRUE,
                                           !.cause = "ValueError",
                                           !.raised = Reraised("ValueError")]
            ELSE /\ mag' = m
                 /\ lazy_init' = TRUE
                 /\ IF tissue_seg_path = None
                    THEN /\ UNCHANGED gdf_contours
                         /\ call' = [NoCall EXCEPT !.op = "initialize", !.opened = TRUE]
                    ELSE IF files.seg
                    THEN /\ gdf_contours' = Some("contours")
                         /\ call' = [NoCall EXCEPT !.op = "initialize", !.opened = TRUE,
                                                   !.read_seg = TRUE]
                    ELSE /\ UNCHANGED gdf_contours
                         /\ \E cause \in SegErrors :
                              call' = [NoCall EXCEPT !.op = "initialize", !.opened = TRUE,
                                                     !.read_seg = TRUE, !.cause = cause,
                                                     !.raised = Reraised(cause)]
       /\ UNCHANGED config

\* variant: the lazy_init guard is dropped
_lazy_initialize_unguarded == DoInitialize

\* initialize(): _lazy_initialize
_lazy_initialize ==
    IF lazy_init
    THEN /\ call' = [NoCall EXCEPT !.op = "initialize"]
         /\ UNCHANGED <<config, attrs>>
    ELSE DoInitialize

(***************************************************************************)
(* read_region, get_thumbnail, get_dimensions.                             *)
(***************************************************************************)
ReadAs == {"numpy", "torch", "pil", "jpeg"}

Devices == {"cpu", "cuda:0"}

Sides == 1..MaxSide

\* '"cuda" in device'
IsCuda(device) == device = "cuda:0"

\* the conversion of the decoded region, "" when read_as names none
Converted(size, device, read_as) ==
    CASE read_as = "torch" ->
           [kind |-> "tensor", a |-> size[1], b |-> size[2],
            dev |-> IF IsCuda(device) THEN device ELSE "cpu"]
      [] read_as = "numpy" -> [kind |-> "ndarray", a |-> size[1], b |-> size[2], dev |-> "cpu"]
      [] read_as = "pil" -> [kind |-> "image", a |-> size[1], b |-> size[2], dev |-> "RGB"]
      [] OTHER -> NoRet

\* variant: read_as is validated before the region is decoded
read_region_validate_first(handle, level, size, device, read_as) ==
    IF read_as \notin {"torch", "numpy", "pil"}
    THEN [NoCall EXCEPT !.op = "read_region", !.read_as = read_as, !.device = device,
                        !.level = level, !.w = size[1], !.h = size[2],
                        !.raised = "ValueError"]
    ELSE [NoCall EXCEPT !.op = "read_region", !.read_as = read_as, !.device = device,
                        !.level = level, !.w = size[1], !.h = size[2],
                        !.decoded = (handle # None),
                        !.raised = IF handle = None THEN "AttributeError" ELSE "",
                        !.ret = IF handle = None THEN NoRet
                                ELSE Converted(size, device, read_as)]

\* read_region(location, level, size, device, read_as) on the handle self.img
read_region(handle, level, size, device, read_as) ==
    IF handle = None
    THEN \* self.img was never assigned
         [NoCall EXCEPT !.op = "read_region", !.read_as = read_as, !.device = device,
                        !.level = level, !.w = size[1], !.h = size[2],
                        !.raised = "AttributeError"]
    ELSE \* self.img.read_region(...) runs first, then read_as is examined
         [NoCall EXCEPT !.op = "read_region", !.read_as = read_as, !.device = device,
                        !.level = level, !.w = size[1], !.h = size[2],
                        !.decoded = TRUE,
                        !.raised = IF read_as \in {"torch", "numpy", "pil"} THEN ""
                                   ELSE "ValueError",
                        !.ret = Converted(size, device, read_as)]

ReadRegion ==
    /\ \E level \in (IF img = None THEN {0} ELSE 0..(img[1].resolutions.level_count - 1)),
          size \in Sides \X Sides, device \in Devices, read_as \in ReadAs :
            call' = read_region(img, level, size, device, read_as)
    /\ UNCHANGED <<config, attrs>>

\* Image.resize((w, h)): the image has width w and height h
Resize(image, new_size) == [image EXCEPT !.a = new_size[1], !.b = new_size[2]]

\* get_best_level_and_custom_downsample(max(width / target_width, height / target_height)):
\* the deepest level whose downsample does not exceed the desired one, level 0 if none
get_best_level(size) ==
    LET fits == { l \in 1..Len(level_downsamples) :
                    \/ level_downsamples[l] * size[1] <= width[1]
                    \/ level_downsamples[l] * size[2] <= height[1] }
    IN IF fits = {} THEN 0 ELSE (CHOOSE l \in fits : \A k \in fits : k <= l) - 1

\* the size get_thumbnail hands to Image.resize
thumbnail_resize_arg(size) == <<size[2], size[1]>>

GetThumbnail ==
    /\ \E size \in Sides \X Sides :
         IF width = None
         THEN \* self.width / target_width on an adapter that has no width
              call' = [NoCall EXCEPT !.op = "get_thumbnail", !.w = size[1], !.h = size[2],
                                     !.raised = "TypeError"]
         ELSE LET level == get_best_level(size)
                  region == read_region(img, level, level_dimensions[level + 1], "cpu", "pil")
              IN call' = [region EXCEPT !.op = "get_thumbnail", !.w = size[1], !.h = size[2],
                                        !.ret = Resize(region.ret, thumbnail_resize_arg(size))]
    /\ UNCHANGED <<config, attrs>>

GetDimensions ==
    /\ call' = IF dimensions = None
               THEN [NoCall EXCEPT !.op = "get_dimensions", !.raised = "AttributeError"]
               ELSE [NoCall EXCEPT !.op = "get_dimensions",
                                   !.ret = [kind |-> "tuple", a |-> dimensions[1][1],
                                            b |-> dimensions[1][2], dev |-> ""]]
    /\ UNCHANGED <<config, attrs>>

Next ==
    \/ _lazy_initialize
    \/ FetchMpp
    \/ ReadRegion
    \/ GetThumbnail
    \/ GetDimensions

Spec == Init /\ [][Next]_vars

(***************************************************************************)
(* Properties of the calibration lookup (checked under SpecCal).           *)
(***************************************************************************)
OX == <<"openslide", "mpp-x">>

OY == <<"openslide", "mpp-y">>

\* the flattened metadata of the opened slide
FlatNow == flat_meta_of(img[1].metadata)

\* the keys _fetch_mpp may consult: the caller's, lowercased, and the fallback list
ConsultedKeys ==
    {fallback_keys[i] : i \in 1..Len(fallback_keys)}
        \cup {Lower(custom_mpp_keys.mpp_x[i]) : i \in 1..Len(custom_mpp_keys.mpp_x)}
        \cup {Lower(custom_mpp_keys.mpp_y[i]) : i \in 1..Len(custom_mpp_keys.mpp_y)}

IsNumeric(val) == val.kind \in {"float", "numstr"}

\* the consulted keys that the metadata holds with a value that parses as a number
NumericKeys == {k \in ConsultedKeys \cap DOMAIN FlatNow : IsNumeric(FlatNow[k])}

FetchMppReturned == call.op = "_fetch_mpp" /\ call.raised = ""

\* C5: with no caller-supplied keys, metadata holding openslide.mpp-x = vx and
\* openslide.mpp-y = vy (numeric, nested or flat, whatever else is present) gives
\* (vx + vy) / 2; 0.25 and 0.26 give 0.255.
C5_OpenslidePairAveraged ==
    (/\ FetchMppReturned
     /\ custom_mpp_keys = NoCustomKeys
     /\ {OX, OY} \subseteq DOMAIN FlatNow
     /\ IsNumeric(FlatNow[OX])
     /\ IsNumeric(FlatNow[OY]))
    => /\ call.ret.kind = "float"
       /\ 2 * call.ret.a = FlatNow[OX].v + FlatNow[OY].v
       /\ (FlatNow[OX].v = 250 /\ FlatNow[OY].v = 260) => call.ret.a = 255

\* C5 happens: the pair 0.25 / 0.26, listed y before x and after another fallback
\* key that also holds a number, resolved to 0.255
C5_Witness ==
    /\ FetchMppReturned
    /\ custom_mpp_keys = NoCustomKeys
    /\ Len(img[1].metadata.doc) = 3
    /\ img[1].metadata.doc[1].k = <<"MPP">>
    /\ img[1].metadata.doc[2].k = OY
    /\ img[1].metadata.doc[3].k = OX
    /\ {OX, OY, <<"mpp">>} \subseteq DOMAIN FlatNow
    /\ FlatNow[OX] = Num(250)
    /\ FlatNow[OY] = NumStr(260)
    /\ IsNumeric(FlatNow[<<"mpp">>])
    /\ call.ret.a = 255

\* C6: when exactly one consulted key holds a number v, the result is v,
\* whichever axis the key was found for.
C6_SingleKeyMirrored ==
    (FetchMppReturned /\ Cardinality(NumericKeys) = 1)
    => \A k \in NumericKeys : call.ret.kind = "float" /\ call.ret.a = FlatNow[k].v

\* C6 happens: the only number was found for the y axis and mirrored to x
C6_Witness ==
    /\ FetchMppReturned
    /\ Cardinality(NumericKeys) = 1
    /\ call.axes.src_y # None
    /\ call.axes.src_x = None
    /\ call.ret.kind = "float"

\* C7: the result is none exactly when no consulted key holds a value that parses
\* as a number; unparsable values do not stop later keys from being tried.
C7_NoneIffNoNumericKey ==
    FetchMppReturned => ((call.ret.kind = "None") <=> (NumericKeys = {}))

\* C7 happens: openslide.mpp-x is present but unparsable, a later key resolves
C7_Witness ==
    /\ FetchMppReturned
    /\ OX \in DOMAIN FlatNow
    /\ ~IsNumeric(FlatNow[OX])
    /\ NumericKeys = {<<"mpp">>}
    /\ call.ret.kind = "float"

\* C9: each axis takes its value from a key of its own axis, never from a key
\* of the other axis; stated on the case the claim names: when the caller's
\* mpp_x key resolves and the metadata holds openslide.mpp-x and openslide.mpp-y
\* with numbers, the y-axis value is the one of openslide.mpp-y.
C9_AxisFromOwnKey ==
    (/\ FetchMppReturned
     /\ custom_mpp_keys.mpp_x # None
     /\ call.axes.src_x = Some(Lower(custom_mpp_keys.mpp_x[1]))
     /\ {OX, OY} \subseteq DOMAIN FlatNow
     /\ IsNumeric(FlatNow[OX])
     /\ IsNumeric(FlatNow[OY]))
    => call.axes.mpp_y = Some(FlatNow[OY].v)

(***************************************************************************)
(* Properties of the adapter's life cycle and reads (checked under Spec).  *)
(***************************************************************************)
InitializeRaised == call.op = "initialize" /\ call.raised # ""

\* C1: initialize() with a missing slide file, or a missing contour file, fails
\* with the file-not-found kind, not the generic initialization error.
C1_MissingFileIsFileNotFound ==
    (/\ InitializeRaised
     /\ \/ files.slide = None
        \/ call.read_seg /\ ~files.seg)
    => call.raised = "FileNotFoundError"

\* C2 as stated: on an initialized adapter, an unrecognized read_as raises the
\* invalid-argument failure and no decode is requested in that call.
C2_BadFormatNoDecode ==
    (call.op = "read_region" /\ lazy_init /\ call.read_as \notin {"numpy", "torch", "pil"})
    => (call.raised = "ValueError" /\ ~call.decoded)

\* C2 as amended: on an opened adapter, an unrecognized read_as raises the
\* invalid-argument failure after the decode was requested from the handle, and
\* nothing is returned.
C2_BadFormatRaisesAfterDecode ==
    (call.op = "read_region" /\ img # None /\ call.read_as \notin {"numpy", "torch", "pil"})
    => (call.raised = "ValueError" /\ call.decoded /\ call.ret = NoRet)

\* C2 happens: read_region(..., read_as='jpeg') on an initialized adapter
C2_Witness ==
    /\ call.op = "read_region"
    /\ lazy_init
    /\ call.read_as = "jpeg"
    /\ call.raised = "ValueError"

\* C3: initialize() on an adapter already marked initialized opens nothing,
\* reads no contour file, raises nothing and changes no attribute.
C3_InitializeIsNoOp ==
    [][(lazy_init /\ call'.op = "initialize")
         => (/\ UNCHANGED <<attrs, config>>
             /\ ~call'.opened
             /\ ~call'.read_seg
             /\ call'.raised = "")]_vars

\* C3 happens: an initialize() that found the adapter initialized
C3_Witness ==
    /\ call.op = "initialize"
    /\ lazy_init
    /\ ~call.opened
    /\ img # None

\* C4: after a successful initialize(), an explicit mpp is the adapter's mpp
\* whatever the metadata holds; the metadata value is used only without one.
C4_ExplicitMppWins ==
    (call.op = "initialize" /\ call.raised = "" /\ call.opened)
    => IF kwargs.mpp # None
       THEN mpp = kwargs.mpp
       ELSE mpp = _fetch_mpp(files.slide[1].metadata, custom_mpp_keys)

\* C4 happens: initialized with mpp=0.5 on a slide whose metadata resolves to 0.255
C4_Witness ==
    /\ call.op = "initialize"
    /\ call.raised = ""
    /\ call.opened
    /\ kwargs.mpp = Some(500)
    /\ mpp = Some(500)
    /\ _fetch_mpp(img[1].metadata, custom_mpp_keys) = Some(255)

\* C8: on an initialized adapter, get_thumbnail((w, h)) returns an image of
\* width w and height h.
C8_ThumbnailHasRequestedSize ==
    (call.op = "get_thumbnail" /\ lazy_init /\ call.raised = "")
    => (call.ret.kind = "image" /\ call.ret.a = call.w /\ call.ret.b = call.h)

\* C10: the adapter is marked initialized only if initialization fully
\* succeeded: with a contour path configured, the contours are loaded, and an
\* initialize() that raised leaves the adapter unmarked.
C10_InitializedOnlyWhenComplete ==
    /\ (lazy_init /\ tissue_seg_path # None) => gdf_contours # None
    /\ InitializeRaised => ~lazy_init

====
